---- MODULE Spec2Model ----
(***************************************************************************)
(* A model of bubbly.py: one call of bubbleplot on a small dataset.        *)
(*                                                                         *)
(* The call is a sequential program; the model steps it block by block    *)
(* (pc), each action being one block of bubbleplot together with the      *)
(* helper functions the block calls.  Python values are modelled as:      *)
(*   - None in a string slot is the string "None"; a truth test on such a *)
(*     slot is Truthy;                                                     *)
(*   - None in a list/number slot is the empty tuple <<>>, a given value v *)
(*     is <<v>>;                                                           *)
(*   - a dict is a function on its set of keys, so "has no key k" is      *)
(*     k \notin DOMAIN d;                                                  *)
(*   - a time value t is stored as the integer 2*t, so that the model has *)
(*     whole and half values (1, 1.5, 2, ...);                             *)
(*   - floats of a range are hundredths, sizeref is a fraction <<n, d>>.   *)
(***************************************************************************)
EXTENDS Integers, Sequences, FiniteSets, TLC

VARIABLES
    dataset,            \* the DataFrame: [rows, dtypes]
    par,                \* the arguments of the call, as passed
    pc,                 \* position in bubbleplot
    err,                \* the exception that ended the call, or "none"
    category_column,
    color_column,
    years,
    show_slider,
    show_button,
    column_names,
    axes3D,
    categories,
    col_name_template,
    grid,
    showlegend,
    figure,
    sliders_dict,
    sizeref,
    fi,                 \* index of the next year of the frame loop
    colorLookups        \* key templates getTrace formatted for a colour lookup

vars == <<dataset, par, pc, err, category_column, color_column, years,
          show_slider, show_button, column_names, axes3D, categories,
          col_name_template, grid, showlegend, figure, sliders_dict, sizeref,
          fi, colorLookups>>

\* ------------------------------------------------------------------ bounds

\* Rows of a dataset.
MaxRows == 3

\* Rows of a dataset of whole time values and plain labels (SpecShow).
MaxGroupRows == 4

\* Rows of a dataset whose labels chain on the name of a column (SpecNames).
MaxNameRows == 5

\* ------------------------------------------------------- python primitives

None == "None"

Truthy(s) == s # None /\ s # ""

NoValue == <<>>

Some(v) == <<v>>

RECURSIVE Flatten(_)
Flatten(ss) == IF ss = <<>> THEN <<>> ELSE Head(ss) \o Flatten(Tail(ss))

RECURSIVE Join(_)
Join(pieces) == IF pieces = <<>> THEN "" ELSE Head(pieces) \o Join(Tail(pieces))

RECURSIVE SeqMin(_)
SeqMin(s) ==
    IF Len(s) = 1 THEN s[1]
    ELSE LET m == SeqMin(Tail(s)) IN IF m < Head(s) THEN m ELSE Head(s)

RECURSIVE SeqMax(_)
SeqMax(s) ==
    IF Len(s) = 1 THEN s[1]
    ELSE LET m == SeqMax(Tail(s)) IN IF m > Head(s) THEN m ELSE Head(s)

\* Series.unique(): the distinct values in order of first appearance.
RECURSIVE UniqueFrom(_, _)
UniqueFrom(s, seen) ==
    IF s = <<>> THEN <<>>
    ELSE IF Head(s) \in seen THEN UniqueFrom(Tail(s), seen)
    ELSE <<Head(s)>> \o UniqueFrom(Tail(s), seen \cup {Head(s)})

Unique(s) == UniqueFrom(s, {})

\* The placeholder of str.format.
PH == "{}"

RECURSIVE CountPH(_)
CountPH(tpl) ==
    IF tpl = <<>> THEN 0
    ELSE (IF Head(tpl) = PH THEN 1 ELSE 0) + CountPH(Tail(tpl))

RECURSIVE FormatFrom(_, _, _)
FormatFrom(tpl, args, k) ==
    IF tpl = <<>> THEN <<>>
    ELSE IF Head(tpl) = PH
         THEN <<args[k]>> \o FormatFrom(Tail(tpl), args, k + 1)
         ELSE <<Head(tpl)>> \o FormatFrom(Tail(tpl), args, k)

\* template.format(*args): a template is its list of pieces; the k-th
\* placeholder takes str(args[k]), extra arguments are ignored, a missing one
\* is an IndexError (FormatFails).  args are already strings.
Format(tpl, args) == FormatFrom(tpl, args, 1)

FormatFails(tpl, args) == CountPH(tpl) > Len(args)

\* ------------------------------------------------------------ the dataset

TimeCol == "year"
CatCol == "grp"
XCol == "gdp"
YCol == "gdp+A"
ZCol == "alt"
BubbleCol == "country"
SizeCol == "size"
HeatCol == "heat"

Column(ds, name) == [i \in 1..Len(ds.rows) |-> ds.rows[i][name]]

\* Values of the time column are [ty, h]: ty the numpy type, h twice the
\* value.  Values of the category column are [ty, v]: ty "bool" or "str".
\* A category argument that is None is NoCategory.
NoCategory == [ty |-> "NoneType"]

\* str() of a time value: numpy prints an int64 as "1" and a float64 as
\* "1.0" or "1.5".
StrYear(year) ==
    IF year.ty = "float64"
    THEN ToString(year.h \div 2) \o (IF year.h % 2 = 1 THEN ".5" ELSE ".0")
    ELSE ToString(year.h \div 2)

\* int(year), in the model's unit: the time value truncated to a whole
\* number (time values are not negative here).
IntYear(year) == 2 * (year.h \div 2)

\* The first time value seen, where the code takes the minimum.
FirstYear(ys) == ys[1]

\* min(years)
MinYear(ys) ==
    LET hs == [i \in 1..Len(ys) |-> ys[i].h]
        m == SeqMin(hs)
    IN ys[CHOOSE i \in 1..Len(ys) : ys[i].h = m]

\* str() of a category value.
StrCat(category) ==
    IF category.ty = "NoneType" THEN "None"
    ELSE IF category.ty = "bool" THEN (IF category.v THEN "True" ELSE "False")
    ELSE category.v

\* The truth value of a category argument: None, False and '' are falsy.
TruthyCat(category) ==
    IF category.ty = "NoneType" THEN FALSE
    ELSE IF category.ty = "bool" THEN category.v
    ELSE category.v # ""

\* ------------------------------------------------------------- the grid

GridEntry(rows, col_name, key) ==
    IF Len(rows) # 0
    THEN <<[value |-> [i \in 1..Len(rows) |-> rows[i][col_name]], key |-> key]>>
    ELSE <<>>

\* The branch of makeGrid without a time column: no size test.
GridEntryNoTime(rows, col_name, key) ==
    <<[value |-> [i \in 1..Len(rows) |-> rows[i][col_name]], key |-> key]>>

makeGrid(ds, colnames, time_column, yrs) ==
    IF Truthy(time_column)
    THEN LET tpl == <<PH, "+", PH, "_grid">>
             ys == IF yrs = NoValue THEN Unique(Column(ds, time_column)) ELSE yrs[1]
             OfYear(year) ==
                 LET InYear(r) == r[time_column].h = IntYear(year)
                     dataset_by_year == SelectSeq(ds.rows, InYear)
                 IN Flatten([c \in 1..Len(colnames) |->
                        GridEntry(dataset_by_year, colnames[c],
                                  Join(Format(tpl, <<StrYear(year), colnames[c]>>)))])
         IN Flatten([y \in 1..Len(ys) |-> OfYear(ys[y])])
    ELSE Flatten([c \in 1..Len(colnames) |->
             GridEntryNoTime(ds.rows, colnames[c], colnames[c] \o "_grid")])

makeGridWithCategories(ds, colnames, time_column, cat_column, yrs, cats) ==
    LET cs == IF cats = NoValue THEN Unique(Column(ds, cat_column)) ELSE cats[1]
    IN IF Truthy(time_column)
       THEN LET tpl == <<PH, "+", PH, "+", PH, "_grid">>
                ys == IF yrs = NoValue THEN Unique(Column(ds, time_column)) ELSE yrs[1]
                OfYearCat(year, category) ==
                    LET InBoth(r) == /\ r[time_column].h = IntYear(year)
                                     /\ r[cat_column] = category
                        dataset_by_year_and_cat == SelectSeq(ds.rows, InBoth)
                    IN Flatten([c \in 1..Len(colnames) |->
                           GridEntry(dataset_by_year_and_cat, colnames[c],
                                     Join(Format(tpl, <<StrYear(year), colnames[c],
                                                        StrCat(category)>>)))])
                OfYear(year) == Flatten([k \in 1..Len(cs) |-> OfYearCat(year, cs[k])])
            IN Flatten([y \in 1..Len(ys) |-> OfYear(ys[y])])
       ELSE LET tpl == <<PH, "+", PH, "_grid">>
                OfCat(category) ==
                    LET InCat(r) == r[cat_column] = category
                        dataset_by_cat == SelectSeq(ds.rows, InCat)
                    IN Flatten([c \in 1..Len(colnames) |->
                           GridEntry(dataset_by_cat, colnames[c],
                                     Join(Format(tpl, <<colnames[c], StrCat(category)>>)))])
            IN Flatten([k \in 1..Len(cs) |-> OfCat(cs[k])])

\* grid.loc[grid['key'] == key, 'value'].values[0]: the value of the first
\* row with that key.  An empty DataFrame has no 'key' column (KeyError); no
\* matching row is an IndexError.
Lookup(gr, key) ==
    LET IsKey(e) == e.key = key
        hits == SelectSeq(gr, IsKey)
    IN IF gr = <<>> THEN [err |-> "KeyError", val |-> <<>>]
       ELSE IF hits = <<>> THEN [err |-> "IndexError", val |-> <<>>]
       ELSE [err |-> "none", val |-> hits[1].value]

\* One grid lookup of getTrace: format the template, then look the key up.
LookupCol(gr, tpl, args) ==
    IF FormatFails(tpl, args) THEN [err |-> "IndexError", val |-> <<>>]
    ELSE Lookup(gr, Join(Format(tpl, args)))

\* ------------------------------------------------------------- the trace

Put(d, k, v) == (k :> v) @@ d

EmptyDict == <<>>

\* cols: the column arguments [x_column, y_column, bubble_column, z_column,
\* size_column]; style: [scale_bubble, marker_opacity, marker_border_width,
\* colorscale, show_colorbar, colorbar_title].  The result is the trace, or
\* the first exception in evaluation order; colorTpl is the template the
\* colour lookup formatted, when the call got to it.
getTrace(gr, tpl, cols, sref, style, color_col, category) ==
    LET Args(col) == <<col, StrCat(category)>>
        lx == LookupCol(gr, tpl, Args(cols.x_column))
        ly == LookupCol(gr, tpl, Args(cols.y_column))
        lt == LookupCol(gr, tpl, Args(cols.bubble_column))
        lz == IF Truthy(cols.z_column)
              THEN LookupCol(gr, tpl, Args(cols.z_column))
              ELSE [err |-> "none", val |-> <<>>]
        ls == IF Truthy(cols.size_column)
              THEN LookupCol(gr, tpl, Args(cols.size_column))
              ELSE [err |-> "none", val |-> <<>>]
        before == <<lx, ly, lt, lz, ls>>
        reached == \A i \in 1..Len(before) : before[i].err = "none"
        lc == IF Truthy(color_col)
              THEN LookupCol(gr, tpl, <<color_col>>)
              ELSE [err |-> "none", val |-> <<>>]
        all == before \o <<lc>>
        bad == {i \in 1..Len(all) : all[i].err # "none"}
        t0 == [x |-> lx.val, y |-> ly.val, text |-> lt.val, mode |-> "markers"]
        t1 == IF Truthy(cols.z_column) THEN Put(t0, "z", lz.val) ELSE t0
        m0 == IF Truthy(cols.size_column)
              THEN [sizemode |-> "area", sizeref |-> sref, size |-> ls.val]
              ELSE [size |-> 10 * style.scale_bubble]
        m1 == IF style.marker_opacity # 0
              THEN Put(m0, "opacity", style.marker_opacity) ELSE m0
        m2 == IF style.marker_border_width # 0
              THEN Put(m1, "line", [width |-> style.marker_border_width]) ELSE m1
        m3 == IF Truthy(color_col)
              THEN Put(Put(Put(m2, "color", lc.val),
                           "colorbar", [title |-> style.colorbar_title]),
                       "colorscale", style.colorscale)
              ELSE m2
        t2 == Put(t1, "marker", m3)
        t3 == IF TruthyCat(category) THEN Put(t2, "name", category) ELSE t2
    IN [err |-> IF bad = {} THEN "none"
                ELSE all[CHOOSE i \in bad : \A j \in bad : i <= j].err,
        trace |-> IF bad = {} THEN t3 ELSE EmptyDict,
        colorTpl |-> IF Truthy(color_col) /\ reached THEN {tpl} ELSE {}]

\* ------------------------------------------------------------ the layout

Axis(axis_title, logscale) ==
    IF logscale
    THEN [title |-> axis_title, autorange |-> FALSE, type |-> "log"]
    ELSE [title |-> axis_title, autorange |-> FALSE]

set2Daxes(fig, x_title, y_title, x_logscale, y_logscale) ==
    [fig EXCEPT !.layout =
        Put(Put(@, "xaxis", Axis(x_title, x_logscale)),
            "yaxis", Axis(y_title, y_logscale))]

set3Daxes(fig, x_title, y_title, z_title, x_logscale, y_logscale, z_logscale) ==
    [fig EXCEPT !.layout =
        Put(@, "scene", [xaxis |-> Axis(x_title, x_logscale),
                         yaxis |-> Axis(y_title, y_logscale),
                         zaxis |-> Axis(z_title, z_logscale)])]

\* addSlider: the seed it stores in the layout, and the dict it returns.
\* min(slider_scale) of no time values is a ValueError.
SliderSeed(slider_scale) ==
    [args |-> <<"slider.value", [duration |-> 400, ease |-> "cubic-in-out"]>>,
     initialValue |-> MinYear(slider_scale),
     plotlycommand |-> "animate",
     values |-> slider_scale,
     visible |-> TRUE]

NewSlidersDict ==
    [active |-> 0, yanchor |-> "top", xanchor |-> "left",
     currentvalue |-> [font |-> [size |-> 20], prefix |-> "Year:",
                       visible |-> TRUE, xanchor |-> "right"],
     transition |-> [duration |-> 300, easing |-> "cubic-in-out"],
     pad |-> [b |-> 10, t |-> 50],
     len |-> 9, x |-> 1, y |-> 0,       \* tenths: 0.9, 0.1, 0
     steps |-> <<>>]

addSliderFails(slider_scale) == slider_scale = NoValue \/ slider_scale[1] = <<>>

addSlider(fig, slider_scale) ==
    <<[fig EXCEPT !.layout = Put(@, "sliders", SliderSeed(slider_scale[1]))],
      NewSlidersDict>>

addSliderSteps(sd, year) ==
    [sd EXCEPT !.steps = Append(@,
        [args |-> << <<year>>,
                     [frame |-> [duration |-> 300, redraw |-> FALSE],
                      mode |-> "immediate",
                      transition |-> [duration |-> 300]] >>,
         label |-> StrYear(year),
         method |-> "animate"])]

Buttons ==
    <<[buttons |->
         <<[args |-> <<None, [frame |-> [duration |-> 500, redraw |-> FALSE],
                              fromcurrent |-> TRUE,
                              transition |-> [duration |-> 300,
                                              easing |-> "quadratic-in-out"]]>>,
            label |-> "Play", method |-> "animate"],
           [args |-> << <<None>>, [frame |-> [duration |-> 0, redraw |-> FALSE],
                                   mode |-> "immediate",
                                   transition |-> [duration |-> 0]]>>,
            label |-> "Pause", method |-> "animate"]>>,
       direction |-> "left", pad |-> [r |-> 10, t |-> 87],
       showactive |-> FALSE, type |-> "buttons",
       xanchor |-> "right", yanchor |-> "top",
       x |-> 1, y |-> 0]>>              \* tenths: 0.1, 0

addButton(fig) == [fig EXCEPT !.layout = Put(@, "updatemenus", Buttons)]

\* setLayout: <<figure, sliders_dict>>.  width and height are 0 when not
\* given (None and 0 are both falsy).
setLayout(p, is3D, slider_on, slider_scale, button_on, legend) ==
    LET f0 == [data |-> <<>>, layout |-> EmptyDict, frames |-> <<>>]
        f1 == IF is3D
              THEN set3Daxes(f0, p.x_title, p.y_title, p.z_title,
                             p.x_logscale, p.y_logscale, p.z_logscale)
              ELSE set2Daxes(f0, p.x_title, p.y_title, p.x_logscale, p.y_logscale)
        f2 == [f1 EXCEPT !.layout =
                 Put(Put(Put(Put(@, "title", p.title), "hovermode", "closest"),
                         "showlegend", legend),
                     "margin", [b |-> 50, t |-> 50, pad |-> 5])]
        f3 == IF p.width # 0 THEN [f2 EXCEPT !.layout = Put(@, "width", p.width)] ELSE f2
        f4 == IF p.height # 0 THEN [f3 EXCEPT !.layout = Put(@, "height", p.height)] ELSE f3
        sl == IF slider_on THEN addSlider(f4, slider_scale) ELSE <<f4, EmptyDict>>
        f6 == IF button_on THEN addButton(sl[1]) ELSE sl[1]
    IN <<f6, sl[2]>>

setLayoutFails(slider_on, slider_scale) == slider_on /\ addSliderFails(slider_scale)

\* ------------------------------------------------------------- the ranges

\* log10 of a power of ten.
Log10(v) == CHOOSE k \in 0..6 : 10 ^ k = v

\* setRange, in hundredths: [min*0.7, max*1.4], or on log10 of the values
\* [min*0.97, max*1.04].  min() of no values is a ValueError.
setRange(values, logscale) ==
    IF logscale
    THEN LET logs == [i \in 1..Len(values) |-> Log10(values[i])]
         IN <<SeqMin(logs) * 97, SeqMax(logs) * 104>>
    ELSE <<SeqMin(values) * 70, SeqMax(values) * 140>>

setRangeFails(values) == values = <<>>

\* ---------------------------------------------------------- bubbleplot

\* Side, in pixels, of the largest bubble: the 80 of 80**2.
MaxBubbleSide == 80

\* The reclassification that forgets to clear the colour column.
ReclassifyKeepingColor(ds, color_col) ==
    IF Truthy(color_col) /\ ds.dtypes[color_col] \in {"category", "object", "bool"}
    THEN <<color_col, color_col>>
    ELSE <<None, color_col>>

\* Lines 57-66: a colour column of dtype category, object or bool becomes
\* the category column.  <<category_column, color_column>>.
Reclassify(ds, color_col) ==
    IF Truthy(color_col) /\ ds.dtypes[color_col] \in {"category", "object", "bool"}
    THEN <<color_col, None>>
    ELSE <<None, color_col>>

\* The rule as the flags' documentation would not have it: a time column
\* turns the control on, whatever the caller passed.
ShowControlForced(time_column, flag) == Truthy(time_column)

\* The rule without the lines that turn the controls off.
ShowControlAsPassed(time_column, flag) == flag

\* Lines 70-79: without a time column the slider and the button are off;
\* with one, the caller's flag stands.
ShowControl(time_column, flag) == IF Truthy(time_column) THEN flag ELSE FALSE

\* The time values as numpy.unique would give them: sorted.
RECURSIVE SortedYears(_)
SortedYears(ys) ==
    IF ys = <<>> THEN <<>>
    ELSE LET m == MinYear(ys)
             NotMin(y) == y # m
         IN <<m>> \o SortedYears(SelectSeq(ys, NotMin))

TimeValuesSorted(ds, time_column) == SortedYears(Unique(Column(ds, time_column)))

\* Line 72: dataset[time_column].unique().
TimeValues(ds, time_column) == Unique(Column(ds, time_column))

\* Lines 83-102.
ColumnNames(p, color_col) ==
    <<p.x_column, p.y_column>>
    \o (IF Truthy(p.z_column) THEN <<p.z_column>> ELSE <<>>)
    \o <<p.bubble_column>>
    \o (IF Truthy(p.size_column) THEN <<p.size_column>> ELSE <<>>)
    \o (IF Truthy(color_col) THEN <<color_col>> ELSE <<>>)

\* The reference taken from the smallest size.
SizerefOfMin(ds, size_column, scale_bubble) ==
    <<2 * SeqMin(Column(ds, size_column)),
      scale_bubble * MaxBubbleSide * MaxBubbleSide>>

\* Line 144: 2.*max(dataset[size_column])/(scale_bubble*80**2), a fraction.
Sizeref(ds, size_column, scale_bubble) ==
    <<2 * SeqMax(Column(ds, size_column)),
      scale_bubble * MaxBubbleSide * MaxBubbleSide>>

Cols(p) ==
    [x_column |-> p.x_column, y_column |-> p.y_column,
     bubble_column |-> p.bubble_column, z_column |-> p.z_column,
     size_column |-> p.size_column]

Style(p) ==
    [scale_bubble |-> p.scale_bubble, marker_opacity |-> p.marker_opacity,
     marker_border_width |-> p.marker_border_width, colorscale |-> p.colorscale,
     show_colorbar |-> p.show_colorbar, colorbar_title |-> p.colorbar_title]

\* trace['type'] = 'scatter3d' when there is a z column.
WithType(res, z_column) ==
    IF res.err = "none" /\ Truthy(z_column)
    THEN [res EXCEPT !.trace = Put(@, "type", "scatter3d")]
    ELSE res

\* The traces of one time slice, a category without rows being skipped.
CategoryTracesSkipping(gr, tpl, p, sref, cats) ==
    LET Found(r) == r.err = "none"
    IN SelectSeq([k \in 1..Len(cats) |->
                    WithType(getTrace(gr, tpl, Cols(p), sref, Style(p), None, cats[k]),
                             p.z_column)], Found)

\* The traces of one time slice in categorical mode, one per category.
CategoryTraces(gr, tpl, p, sref, cats) ==
    [k \in 1..Len(cats) |->
        WithType(getTrace(gr, tpl, Cols(p), sref, Style(p), None, cats[k]),
                 p.z_column)]

\* The trace of one time slice in plain mode.
PlainTrace(gr, tpl, p, sref, color_col) ==
    WithType(getTrace(gr, tpl, Cols(p), sref, Style(p), color_col, NoCategory),
             p.z_column)

FirstErr(results) ==
    LET bad == {i \in 1..Len(results) : results[i].err # "none"}
    IN IF bad = {} THEN "none"
       ELSE results[CHOOSE i \in bad : \A j \in bad : i <= j].err

Traces(results) == [i \in 1..Len(results) |-> results[i].trace]

ColorTpls(results) == UNION {results[i].colorTpl : i \in 1..Len(results)}

\* The name of the frame of a time value.
FrameName(year) == StrYear(year)

\* Lines 250-261: the range of an axis.
AxisRange(given, values, logscale) ==
    IF given = NoValue THEN setRange(values, logscale) ELSE given[1]

AxisRangeFails(given, values) == given = NoValue /\ setRangeFails(values)

\* The ranges of x and y stored on each other's axis.
WithRangesSwapped(fig, is3D, xr, yr, zr) ==
    IF is3D
    THEN [fig EXCEPT !.layout.scene.xaxis = Put(@, "range", yr),
                     !.layout.scene.yaxis = Put(@, "range", xr),
                     !.layout.scene.zaxis = Put(@, "range", zr)]
    ELSE [fig EXCEPT !.layout.xaxis = Put(@, "range", yr),
                     !.layout.yaxis = Put(@, "range", xr)]

\* Lines 258-269: where the ranges go.
WithRanges(fig, is3D, xr, yr, zr) ==
    IF is3D
    THEN [fig EXCEPT !.layout.scene.xaxis = Put(@, "range", xr),
                     !.layout.scene.yaxis = Put(@, "range", yr),
                     !.layout.scene.zaxis = Put(@, "range", zr)]
    ELSE [fig EXCEPT !.layout.xaxis = Put(@, "range", xr),
                     !.layout.yaxis = Put(@, "range", yr)]

\* Lines 272-273.
WithSliders(fig, slider_on, sd) ==
    IF slider_on THEN [fig EXCEPT !.layout = Put(@, "sliders", <<sd>>)] ELSE fig

Raise(e) == pc' = "error" /\ err' = e

\* Lines 57-102.
Classify ==
    /\ pc = "start"
    /\ LET rc == Reclassify(dataset, par.color_column)
       IN /\ category_column' = rc[1]
          /\ color_column' = rc[2]
          /\ column_names' = ColumnNames(par, rc[2])
    /\ years' = IF Truthy(par.time_column)
                THEN Some(TimeValues(dataset, par.time_column))
                ELSE NoValue
    /\ show_slider' = ShowControl(par.time_column, par.show_slider)
    /\ show_button' = ShowControl(par.time_column, par.show_button)
    /\ axes3D' = Truthy(par.z_column)
    /\ pc' = "grid"
    /\ UNCHANGED <<dataset, par, err, categories, col_name_template, grid,
                   showlegend, figure, sliders_dict, sizeref, fi, colorLookups>>

\* Lines 106-117.
BuildGridCategorical ==
    /\ pc = "grid"
    /\ Truthy(category_column)
    /\ LET cats == Unique(Column(dataset, category_column))
       IN /\ categories' = Some(cats)
          /\ grid' = makeGridWithCategories(dataset, column_names, par.time_column,
                                            category_column, years, Some(cats))
    /\ col_name_template' = <<PH, "+", PH, "+", PH, "_grid">>
    /\ showlegend' = IF par.show_legend = NoValue THEN TRUE ELSE par.show_legend[1]
    /\ pc' = "layout"
    /\ UNCHANGED <<dataset, par, err, category_column, color_column, years,
                   show_slider, show_button, column_names, axes3D, figure,
                   sliders_dict, sizeref, fi, colorLookups>>

\* Lines 118-127.
BuildGridPlain ==
    /\ pc = "grid"
    /\ ~Truthy(category_column)
    /\ col_name_template' = <<PH, "+", PH, "_grid">>
    /\ grid' = makeGrid(dataset, column_names, par.time_column, years)
    /\ showlegend' = IF par.show_legend = NoValue THEN FALSE ELSE par.show_legend[1]
    /\ pc' = "layout"
    /\ UNCHANGED <<dataset, par, err, category_column, color_column, years,
                   show_slider, show_button, column_names, axes3D, categories,
                   figure, sliders_dict, sizeref, fi, colorLookups>>

\* Lines 130-139.
Layout ==
    /\ pc = "layout"
    /\ LET slider_scale == IF show_slider THEN years ELSE NoValue
           fs == setLayout(par, axes3D, show_slider, slider_scale, show_button,
                           showlegend)
       IN IF setLayoutFails(show_slider, slider_scale)
          THEN Raise("ValueError") /\ UNCHANGED <<figure, sliders_dict>>
          ELSE /\ figure' = fs[1]
               /\ sliders_dict' = fs[2]
               /\ pc' = "sizeref"
               /\ err' = err
    /\ UNCHANGED <<dataset, par, category_column, color_column, years,
                   show_slider, show_button, column_names, axes3D, categories,
                   col_name_template, grid, showlegend, sizeref, fi, colorLookups>>

\* Lines 141-146.  max() of an empty column is a ValueError.
ComputeSizeref ==
    /\ pc = "sizeref"
    /\ IF ~Truthy(par.size_column)
       THEN sizeref' = NoValue /\ pc' = "base" /\ err' = err
       ELSE IF Column(dataset, par.size_column) = <<>>
       THEN Raise("ValueError") /\ sizeref' = sizeref
       ELSE /\ sizeref' = Sizeref(dataset, par.size_column, par.scale_bubble)
            /\ pc' = "base"
            /\ err' = err
    /\ UNCHANGED <<dataset, par, category_column, color_column, years,
                   show_slider, show_button, column_names, axes3D, categories,
                   col_name_template, grid, showlegend, figure, sliders_dict,
                   fi, colorLookups>>

\* After the base traces: the frame loop if there are time values.
AfterBase ==
    IF Truthy(par.time_column) /\ years[1] # <<>> THEN "frames" ELSE "ranges"

\* Lines 149-173: the base traces in categorical mode.  With a category there
\* is a row, so min(years) has a value.
BaseCategorical ==
    /\ pc = "base"
    /\ Truthy(category_column)
    /\ LET col_name_template_year ==
               IF Truthy(par.time_column)
               THEN Format(col_name_template, <<StrYear(MinYear(years[1])), PH, PH>>)
               ELSE <<PH, "+", PH, "_grid">>
           res == IF categories[1] = <<>> THEN <<>>
                  ELSE CategoryTraces(grid, col_name_template_year, par, sizeref,
                                      categories[1])
       IN /\ colorLookups' = colorLookups \cup ColorTpls(res)
          /\ IF FirstErr(res) # "none"
             THEN Raise(FirstErr(res)) /\ figure' = figure
             ELSE /\ figure' = [figure EXCEPT !.data = @ \o Traces(res)]
                  /\ pc' = AfterBase
                  /\ err' = err
    /\ fi' = 1
    /\ UNCHANGED <<dataset, par, category_column, color_column, years,
                   show_slider, show_button, column_names, axes3D, categories,
                   col_name_template, grid, showlegend, sliders_dict, sizeref>>

\* Lines 202-223: the base trace in plain mode.  min(years) of no time
\* values is a ValueError.
BasePlain ==
    /\ pc = "base"
    /\ ~Truthy(category_column)
    /\ IF Truthy(par.time_column) /\ years[1] = <<>>
       THEN Raise("ValueError") /\ UNCHANGED <<figure, colorLookups>>
       ELSE LET col_name_template_year ==
                    IF Truthy(par.time_column)
                    THEN Format(col_name_template, <<StrYear(MinYear(years[1])), PH>>)
                    ELSE <<PH, "_grid">>
                res == PlainTrace(grid, col_name_template_year, par, sizeref,
                                  color_column)
            IN /\ colorLookups' = colorLookups \cup res.colorTpl
               /\ IF res.err # "none"
                  THEN Raise(res.err) /\ figure' = figure
                  ELSE /\ figure' = [figure EXCEPT !.data = Append(@, res.trace)]
                       /\ pc' = AfterBase
                       /\ err' = err
    /\ fi' = 1
    /\ UNCHANGED <<dataset, par, category_column, color_column, years,
                   show_slider, show_button, column_names, axes3D, categories,
                   col_name_template, grid, showlegend, sliders_dict, sizeref>>

AfterFrame == IF fi = Len(years[1]) THEN "ranges" ELSE "frames"

\* Lines 178-201: one pass of the frame loop in categorical mode.
FrameCategorical ==
    /\ pc = "frames"
    /\ Truthy(category_column)
    /\ LET year == years[1][fi]
           col_name_template_year ==
               Format(col_name_template, <<StrYear(year), PH, PH>>)
           res == CategoryTraces(grid, col_name_template_year, par, sizeref,
                                 categories[1])
       IN /\ colorLookups' = colorLookups \cup ColorTpls(res)
          /\ IF FirstErr(res) # "none"
             THEN Raise(FirstErr(res)) /\ UNCHANGED <<figure, sliders_dict, fi>>
             ELSE /\ figure' = [figure EXCEPT !.frames =
                                   Append(@, [data |-> Traces(res),
                                              name |-> FrameName(year)])]
                  /\ sliders_dict' = IF show_slider
                                     THEN addSliderSteps(sliders_dict, year)
                                     ELSE sliders_dict
                  /\ fi' = fi + 1
                  /\ pc' = AfterFrame
                  /\ err' = err
    /\ UNCHANGED <<dataset, par, category_column, color_column, years,
                   show_slider, show_button, column_names, axes3D, categories,
                   col_name_template, grid, showlegend, sizeref>>

\* Lines 228-247: one pass of the frame loop in plain mode.
FramePlain ==
    /\ pc = "frames"
    /\ ~Truthy(category_column)
    /\ LET year == years[1][fi]
           col_name_template_year == Format(col_name_template, <<StrYear(year), PH>>)
           res == PlainTrace(grid, col_name_template_year, par, sizeref, color_column)
       IN /\ colorLookups' = colorLookups \cup res.colorTpl
          /\ IF res.err # "none"
             THEN Raise(res.err) /\ UNCHANGED <<figure, sliders_dict, fi>>
             ELSE /\ figure' = [figure EXCEPT !.frames =
                                   Append(@, [data |-> <<res.trace>>,
                                              name |-> FrameName(year)])]
                  /\ sliders_dict' = IF show_slider
                                     THEN addSliderSteps(sliders_dict, year)
                                     ELSE sliders_dict
                  /\ fi' = fi + 1
                  /\ pc' = AfterFrame
                  /\ err' = err
    /\ UNCHANGED <<dataset, par, category_column, color_column, years,
                   show_slider, show_button, column_names, axes3D, categories,
                   col_name_template, grid, showlegend, sizeref>>

\* Lines 249-269.
SetRanges ==
    /\ pc = "ranges"
    /\ LET xs == Column(dataset, par.x_column)
           ys == Column(dataset, par.y_column)
           zs == IF axes3D THEN Column(dataset, par.z_column) ELSE <<>>
           fails == \/ AxisRangeFails(par.x_range, xs)
                    \/ AxisRangeFails(par.y_range, ys)
                    \/ (axes3D /\ AxisRangeFails(par.z_range, zs))
       IN IF fails
          THEN Raise("ValueError") /\ figure' = figure
          ELSE /\ figure' = WithRanges(figure, axes3D,
                                AxisRange(par.x_range, xs, par.x_logscale),
                                AxisRange(par.y_range, ys, par.y_logscale),
                                IF axes3D
                                THEN AxisRange(par.z_range, zs, par.z_logscale)
                                ELSE NoValue)
               /\ pc' = "attach"
               /\ err' = err
    /\ UNCHANGED <<dataset, par, category_column, color_column, years,
                   show_slider, show_button, column_names, axes3D, categories,
                   col_name_template, grid, showlegend, sliders_dict, sizeref,
                   fi, colorLookups>>

\* Lines 271-275.
Return ==
    /\ pc = "attach"
    /\ figure' = WithSliders(figure, show_slider, sliders_dict)
    /\ pc' = "done"
    /\ UNCHANGED <<dataset, par, err, category_column, color_column, years,
                   show_slider, show_button, column_names, axes3D, categories,
                   col_name_template, grid, showlegend, sliders_dict, sizeref,
                   fi, colorLookups>>

Next ==
    \/ Classify
    \/ BuildGridCategorical
    \/ BuildGridPlain
    \/ Layout
    \/ ComputeSizeref
    \/ BaseCategorical
    \/ BasePlain
    \/ FrameCategorical
    \/ FramePlain
    \/ SetRanges
    \/ Return

\* ------------------------------------------------------- calls modelled

\* The defaults of bubbleplot's signature (lines 11-22); 0 stands for a
\* number that is not given.
DefaultPar ==
    [x_column |-> XCol, y_column |-> YCol, bubble_column |-> BubbleCol,
     z_column |-> None, time_column |-> None, size_column |-> None,
     color_column |-> None,
     x_logscale |-> FALSE, y_logscale |-> FALSE, z_logscale |-> FALSE,
     x_range |-> NoValue, y_range |-> NoValue, z_range |-> NoValue,
     x_title |-> None, y_title |-> None, z_title |-> None,
     title |-> None, colorbar_title |-> None,
     scale_bubble |-> 1, colorscale |-> None,
     marker_opacity |-> 0, marker_border_width |-> 0,
     show_slider |-> TRUE, show_button |-> TRUE,
     show_colorbar |-> TRUE, show_legend |-> NoValue,
     width |-> 0, height |-> 0]

\* Row i of a dataset: its time value, its category and a number v the
\* numeric columns are multiples of, so that no two columns hold the same
\* values.
MkRow(i, year, cat, v) ==
    (TimeCol :> year) @@ (CatCol :> cat) @@ (XCol :> v) @@ (SizeCol :> 10 * v)
    @@ (YCol :> 100 * v) @@ (ZCol :> 1000 * v) @@ (HeatCol :> 7 * v)
    @@ (BubbleCol :> "c" \o ToString(i))

\* The DataFrame of the time values ts (doubled), the categories cs and the
\* numbers vs.  The time column is float64 when a value is not whole.
MkDataset(ts, cs, catTy, vs) ==
    LET ty == IF \E i \in 1..Len(ts) : ts[i] % 2 = 1 THEN "float64" ELSE "int64"
    IN [rows |-> [i \in 1..Len(ts) |->
                    MkRow(i, [ty |-> ty, h |-> ts[i]], [ty |-> catTy, v |-> cs[i]],
                          vs[i])],
        dtypes |-> (TimeCol :> ty)
                   @@ (CatCol :> IF catTy = "bool" THEN "bool" ELSE "object")
                   @@ (XCol :> "int64") @@ (YCol :> "int64") @@ (ZCol :> "int64")
                   @@ (SizeCol :> "int64") @@ (HeatCol :> "int64")
                   @@ (BubbleCol :> "object")]

CatVals(catTy) == IF catTy = "bool" THEN {TRUE, FALSE} ELSE {"A+B", "B", ""}

Start(ds, p) ==
    /\ dataset = ds
    /\ par = p
    /\ pc = "start"
    /\ err = "none"
    /\ category_column = None
    /\ color_column = p.color_column
    /\ years = NoValue
    /\ show_slider = p.show_slider
    /\ show_button = p.show_button
    /\ column_names = <<>>
    /\ axes3D = FALSE
    /\ categories = NoValue
    /\ col_name_template = <<>>
    /\ grid = <<>>
    /\ showlegend = FALSE
    /\ figure = [data |-> <<>>, layout |-> EmptyDict, frames |-> <<>>]
    /\ sliders_dict = EmptyDict
    /\ sizeref = NoValue
    /\ fi = 1
    /\ colorLookups = {}

\* Calls on datasets of up to MaxRows rows with whole and half time values,
\* text or boolean categories (among them the labels "", "A+B" beside a
\* column named "gdp+A"), row i holding the number i; with or without a
\* time column, a categorical or numeric colour column, z and size columns.
\* A column the call does not name is held constant.
Init ==
    \E n \in 0..MaxRows, time \in {None, TimeCol},
       color \in {None, CatCol, HeatCol}, extras \in BOOLEAN :
      \E catTy \in (IF color = CatCol THEN {"str", "bool"} ELSE {"str"}) :
        \E ts \in [1..n -> IF time = TimeCol THEN {2, 3, 4} ELSE {2}],
           cs \in [1..n -> IF color = CatCol THEN CatVals(catTy) ELSE {"B"}] :
          Start(MkDataset(ts, cs, catTy, [i \in 1..n |-> i]),
                [DefaultPar EXCEPT !.time_column = time, !.color_column = color,
                                   !.z_column = IF extras THEN ZCol ELSE None,
                                   !.size_column = IF extras THEN SizeCol ELSE None])

Spec == Init /\ [][Next]_vars

\* Calls on datasets of up to MaxGroupRows rows with whole time values and
\* plain labels, which vary what the caller asks of the slider and the button.
InitShow ==
    \E n \in 0..MaxGroupRows, time \in {None, TimeCol},
       color \in {None, CatCol, HeatCol}, size \in {None, SizeCol},
       slider \in BOOLEAN, button \in BOOLEAN :
      \E ts \in [1..n -> IF time = TimeCol THEN {2, 4} ELSE {2}],
         cs \in [1..n -> IF color = CatCol THEN {"A", "B"} ELSE {"B"}] :
        Start(MkDataset(ts, cs, "str", [i \in 1..n |-> i]),
              [DefaultPar EXCEPT !.time_column = time, !.color_column = color,
                                 !.size_column = size,
                                 !.show_slider = slider, !.show_button = button])

SpecShow == InitShow /\ [][Next]_vars

\* Calls that vary the axes: 2D or 3D, which ranges are given, which axes
\* are logarithmic; the numeric columns hold powers of ten.
GivenRanges ==
    {<<NoValue, NoValue, NoValue>>,
     <<Some(<<1, 2>>), NoValue, NoValue>>,
     <<NoValue, Some(<<3, 4>>), Some(<<5, 6>>)>>,
     <<Some(<<1, 2>>), Some(<<>>), Some(<<5, 6>>)>>}

LogFlags ==
    {<<FALSE, FALSE, FALSE>>, <<TRUE, FALSE, FALSE>>,
     <<FALSE, TRUE, FALSE>>, <<FALSE, FALSE, TRUE>>}

InitRange ==
    \E n \in 0..MaxRows, time \in {None, TimeCol}, color \in {None, CatCol},
       z \in {None, ZCol}, rg \in GivenRanges, lg \in LogFlags :
      \E vs \in [1..n -> {1, 10, 100}] :
        Start(MkDataset([i \in 1..n |-> 2], [i \in 1..n |-> "B"], "str", vs),
              [DefaultPar EXCEPT !.time_column = time, !.color_column = color,
                                 !.z_column = z,
                                 !.x_range = rg[1], !.y_range = rg[2],
                                 !.z_range = rg[3],
                                 !.x_logscale = lg[1], !.y_logscale = lg[2],
                                 !.z_logscale = lg[3]])

SpecRange == InitRange /\ [][Next]_vars

\* Calls with a size column whose values differ between time values and
\* categories.
SizeRows ==
    {<<2, "A", 1>>, <<2, "A", 4>>, <<2, "B", 2>>,
     <<4, "A", 2>>, <<4, "B", 4>>, <<4, "B", 1>>}

InitSize ==
    \E n \in 0..MaxRows, time \in {None, TimeCol}, color \in {None, CatCol},
       size \in {None, SizeCol}, scale \in {1, 2} :
      \E rs \in [1..n -> SizeRows] :
        Start(MkDataset([i \in 1..n |-> rs[i][1]], [i \in 1..n |-> rs[i][2]],
                        "str", [i \in 1..n |-> rs[i][3]]),
              [DefaultPar EXCEPT !.time_column = time, !.color_column = color,
                                 !.size_column = size, !.scale_bubble = scale])

SpecSize == InitSize /\ [][Next]_vars

\* Calls with a time column on datasets of up to MaxNameRows rows with whole
\* time values, whose labels "A+B" and "A+A+B" continue the name of the
\* column "gdp+A"; the hover text is read from the country column or from
\* the column that is also plotted on y.
NameLabels == {"B", "A+B", "A+A+B"}

InitNames ==
    \E n \in 0..MaxNameRows, color \in {None, CatCol},
       bubble \in {BubbleCol, YCol} :
      \E ts \in [1..n -> {2, 4}],
         cs \in [1..n -> IF color = CatCol THEN NameLabels ELSE {"B"}] :
        Start(MkDataset(ts, cs, "str", [i \in 1..n |-> i]),
              [DefaultPar EXCEPT !.time_column = TimeCol, !.color_column = color,
                                 !.bubble_column = bubble])

SpecNames == InitNames /\ [][Next]_vars

\* ------------------------------------------------------------ properties

Returned == pc = "done"

Ended == pc \in {"done", "error"}

HasTime == Truthy(par.time_column)

Rows == dataset.rows

\* The values of a column, as a set, and where each first appears.
ValuesOf(col) == {Rows[i][col] : i \in 1..Len(Rows)}

FirstRow(col, v) ==
    CHOOSE i \in 1..Len(Rows) :
        Rows[i][col] = v /\ \A j \in 1..(i - 1) : Rows[j][col] # v

\* The position of v among the values of its column in first-seen order.
Rank(col, v) ==
    Cardinality({w \in ValuesOf(col) : FirstRow(col, w) <= FirstRow(col, v)})

\* The values of column col in the rows of time value year and, when cat is
\* a category, of that category, in row order.
RowsOf(year, cat) ==
    LET Want(r) == /\ r[TimeCol] = year
                   /\ (cat = NoCategory \/ r[CatCol] = cat)
    IN SelectSeq(Rows, Want)

ValuesIn(rs, col) == [i \in 1..Len(rs) |-> rs[i][col]]

AllTraces ==
    {figure.data[i] : i \in 1..Len(figure.data)}
    \cup UNION {{figure.frames[f].data[i] : i \in 1..Len(figure.frames[f].data)} :
                f \in 1..Len(figure.frames)}

\* C1: a returned descriptor of a call with a time column has one frame per
\* distinct time value, the i-th named by the string form of the i-th
\* distinct value in order of first appearance.
C1_FramesPerTimeValue ==
    (Returned /\ HasTime) =>
        /\ Len(figure.frames) = Cardinality(ValuesOf(TimeCol))
        /\ \A v \in ValuesOf(TimeCol) :
              figure.frames[Rank(TimeCol, v)].name = StrYear(v)

\* C1 witness: a returned call whose time values first appear out of
\* sorted order.
C1_Witness ==
    /\ Returned /\ HasTime
    /\ Len(figure.frames) >= 2
    /\ \E i, j \in 1..Len(Rows) : i < j /\ Rows[i][TimeCol].h > Rows[j][TimeCol].h

Grouped == par.color_column = CatCol

\* The counts the descriptor of a grouped, timed call should have: m traces
\* in the base data and in each of the k frames.
TraceCounts ==
    /\ Len(figure.data) = Cardinality(ValuesOf(CatCol))
    /\ Len(figure.frames) = Cardinality(ValuesOf(TimeCol))
    /\ \A f \in 1..Len(figure.frames) :
          Len(figure.frames[f].data) = Cardinality(ValuesOf(CatCol))

\* Some category has no row at some time value, as the grid filters them
\* (the time value truncated to a whole number).
SomeSliceEmpty ==
    \E y \in ValuesOf(TimeCol), c \in ValuesOf(CatCol) :
        \A i \in 1..Len(Rows) :
            ~(Rows[i][TimeCol].h = IntYear(y) /\ Rows[i][CatCol] = c)

\* C2 as stated: every call on a dataset with m categories and k time
\* values returns a descriptor with m base traces and m traces per frame.
C2_Original ==
    (Ended /\ HasTime /\ Grouped /\ Rows # <<>>) => (Returned /\ TraceCounts)

\* C2 as amended: a descriptor that is returned has m base traces and m
\* traces in each of its k frames; the call on a dataset with rows ends
\* with an error instead of returning only when some category has no row at
\* some time value.
C2_TracesPerCategory ==
    /\ (Returned /\ HasTime /\ Grouped) => TraceCounts
    /\ (Ended /\ HasTime /\ Grouped /\ Rows # <<>>) =>
          (pc = "error" => SomeSliceEmpty)

\* C2 witness: a returned descriptor with two categories and two frames.
C2_Witness ==
    /\ Returned /\ HasTime /\ Grouped
    /\ Cardinality(ValuesOf(CatCol)) >= 2
    /\ Cardinality(ValuesOf(TimeCol)) >= 2
    /\ Len(figure.frames[2].data) >= 2

\* The trace carries, for every plotted column, the values of the rows rs.
Carries(tr, rs) ==
    /\ tr.x = ValuesIn(rs, par.x_column)
    /\ tr.y = ValuesIn(rs, par.y_column)
    /\ tr.text = ValuesIn(rs, par.bubble_column)
    /\ Truthy(par.z_column) => tr.z = ValuesIn(rs, par.z_column)
    /\ Truthy(par.size_column) => tr.marker.size = ValuesIn(rs, par.size_column)
    /\ par.color_column = HeatCol => tr.marker.color = ValuesIn(rs, HeatCol)

\* C3: in a returned descriptor the trace of time value t and category c, in
\* the frame of t, carries exactly the rows whose time value is t and whose
\* category is c, in row order, for whole and other time values and for
\* names that contain '+'.
C3_TraceCarriesItsRows ==
    (Returned /\ HasTime) =>
        \A t \in ValuesOf(TimeCol) :
            LET frame == figure.frames[Rank(TimeCol, t)]
            IN IF Grouped
               THEN \A c \in ValuesOf(CatCol) :
                       Carries(frame.data[Rank(CatCol, c)], RowsOf(t, c))
               ELSE Carries(frame.data[1], RowsOf(t, NoCategory))

\* C6: in categorical mode every trace of the base data and of every frame
\* has a name, the category it was built for.
C6_TraceNamed ==
    (Returned /\ Grouped) =>
        \A c \in ValuesOf(CatCol) :
            LET k == Rank(CatCol, c)
                Named(tr) == "name" \in DOMAIN tr /\ tr.name = c
            IN /\ Named(figure.data[k])
               /\ \A f \in 1..Len(figure.frames) : Named(figure.frames[f].data[k])

\* C9: no entry of the grid holds an empty value list.
C9_NoEmptyGridEntry ==
    pc \notin {"start", "grid"} =>
        \A i \in 1..Len(grid) : grid[i].value # <<>>

\* C10: grouping by category and mapping a numeric colour exclude each
\* other: after the reclassification not both columns are set, no trace has
\* a name and a marker colour, and getTrace formats a colour key only from a
\* template with one placeholder left, never in categorical mode.
C10_CategoryExcludesColor ==
    /\ pc # "start" => ~(Truthy(category_column) /\ Truthy(color_column))
    /\ \A tr \in AllTraces : ~("name" \in DOMAIN tr /\ "color" \in DOMAIN tr.marker)
    /\ \A tpl \in colorLookups : CountPH(tpl) = 1
    /\ colorLookups # {} => ~Truthy(category_column)

\* C10 witness: a returned call with a numeric colour column and frames, the
\* colour looked up and on the trace.
C10_Witness ==
    /\ Returned /\ HasTime
    /\ par.color_column = HeatCol
    /\ colorLookups # {}
    /\ Len(figure.frames) >= 2
    /\ "color" \in DOMAIN figure.frames[2].data[1].marker

Layout_ == figure.layout

\* C4 as stated: with a time column the layout always has the slider and
\* the Play/Pause control, without one it has neither, whatever the caller
\* passed.
C4_Original ==
    Returned =>
        IF HasTime
        THEN "sliders" \in DOMAIN Layout_ /\ "updatemenus" \in DOMAIN Layout_
        ELSE "sliders" \notin DOMAIN Layout_ /\ "updatemenus" \notin DOMAIN Layout_

\* C4 as amended: with a time column the layout has the slider exactly when
\* the caller passed show_slider true and the Play/Pause control exactly
\* when the caller passed show_button true; without one it has neither.
C4_ControlsFollowFlags ==
    Returned =>
        IF HasTime
        THEN /\ "sliders" \in DOMAIN Layout_ <=> par.show_slider
             /\ "updatemenus" \in DOMAIN Layout_ <=> par.show_button
             /\ par.show_button =>
                   /\ Layout_.updatemenus[1].buttons[1].label = "Play"
                   /\ Layout_.updatemenus[1].buttons[2].label = "Pause"
        ELSE "sliders" \notin DOMAIN Layout_ /\ "updatemenus" \notin DOMAIN Layout_

\* C4 witness: a returned call with a time column and show_slider false,
\* show_button true: the control without the slider.
C4_Witness ==
    /\ Returned /\ HasTime
    /\ ~par.show_slider /\ par.show_button
    /\ "updatemenus" \in DOMAIN Layout_
    /\ "sliders" \notin DOMAIN Layout_
    /\ Len(figure.frames) >= 2

\* C5: a call without time, colour and size columns returns one trace, no
\* frames and a layout without slider and button, whatever the caller asked.
C5_BareCall ==
    (Returned /\ ~HasTime /\ par.color_column = None /\ par.size_column = None) =>
        /\ Len(figure.data) = 1
        /\ figure.frames = <<>>
        /\ "sliders" \notin DOMAIN Layout_
        /\ "updatemenus" \notin DOMAIN Layout_

\* C5 witness: such a call returned, the caller having asked for both.
C5_Witness ==
    /\ Returned /\ ~HasTime
    /\ par.color_column = None /\ par.size_column = None
    /\ par.show_slider /\ par.show_button
    /\ Len(Rows) >= 2

DatasetMaxSize ==
    CHOOSE m \in ValuesOf(SizeCol) : \A w \in ValuesOf(SizeCol) : w <= m

\* C7: with a size column every trace has sizemode 'area' and the sizeref
\* 2 * max(size column of the dataset) / (scale_bubble * 6400).
C7_SizerefOfDataset ==
    (Returned /\ Truthy(par.size_column)) =>
        \A tr \in AllTraces :
            /\ tr.marker.sizemode = "area"
            /\ tr.marker.sizeref[2] > 0
            /\ tr.marker.sizeref[1] * (par.scale_bubble * 6400)
                  = 2 * DatasetMaxSize * tr.marker.sizeref[2]

\* C7 witness: sizes 10, 20, 40 and scale 1 give 80/6400, on a trace whose
\* own sizes stay below the maximum.
C7_Witness ==
    /\ Returned /\ HasTime /\ Grouped
    /\ Column(dataset, SizeCol) = <<10, 20, 40>>
    /\ par.size_column = SizeCol /\ par.scale_bubble = 1
    /\ \E tr \in AllTraces :
          /\ tr.marker.sizeref = <<80, 6400>>
          /\ \A i \in 1..Len(tr.marker.size) : tr.marker.size[i] < 40

\* The range an axis should get: the given one, or setRange of its column.
ExpectedRange(given, col, logscale) ==
    IF given # NoValue THEN given[1] ELSE setRange(Column(dataset, col), logscale)

AxisKeys(logscale) ==
    {"title", "autorange", "range"} \cup (IF logscale THEN {"type"} ELSE {})

\* C8: each axis has the range given for it, or else setRange of its column
\* with its log flag; in 3D on layout.scene and not on the layout itself, in
\* 2D on the layout, without a scene and without the z range anywhere.
C8_AxisRanges ==
    Returned =>
        LET xr == ExpectedRange(par.x_range, par.x_column, par.x_logscale)
            yr == ExpectedRange(par.y_range, par.y_column, par.y_logscale)
        IN IF Truthy(par.z_column)
           THEN /\ Layout_.scene.xaxis.range = xr
                /\ Layout_.scene.yaxis.range = yr
                /\ Layout_.scene.zaxis.range =
                      ExpectedRange(par.z_range, par.z_column, par.z_logscale)
                /\ "xaxis" \notin DOMAIN Layout_
                /\ "yaxis" \notin DOMAIN Layout_
           ELSE /\ Layout_.xaxis.range = xr
                /\ Layout_.yaxis.range = yr
                /\ DOMAIN Layout_.xaxis = AxisKeys(par.x_logscale)
                /\ DOMAIN Layout_.yaxis = AxisKeys(par.y_logscale)
                /\ DOMAIN Layout_ \subseteq
                      {"xaxis", "yaxis", "title", "hovermode", "showlegend",
                       "margin", "sliders", "updatemenus"}

\* C8 witness: a returned 3D call with the x range given and the y range
\* computed on a log axis from a column of differing values.
C8_Witness ==
    /\ Returned
    /\ Truthy(par.z_column)
    /\ par.x_range # NoValue /\ par.y_range = NoValue /\ par.y_logscale
    /\ Cardinality(ValuesOf(YCol)) >= 2
    /\ Layout_.scene.xaxis.range = <<1, 2>>

\* The earliest time value of the dataset.
MinTimeValue ==
    CHOOSE v \in ValuesOf(TimeCol) : \A w \in ValuesOf(TimeCol) : v.h <= w.h

\* The steps of the slider as the frame loops append them: one per distinct
\* time value, in order of first appearance, labelled by its string form.
StepsOfFrames(steps) ==
    /\ Len(steps) = Cardinality(ValuesOf(TimeCol))
    /\ \A v \in ValuesOf(TimeCol) :
          /\ steps[Rank(TimeCol, v)].label = StrYear(v)
          /\ steps[Rank(TimeCol, v)].args[1] = <<v>>

\* C11: when the slider is shown, the slider spec under sliders of the
\* returned layout carries initialValue, the minimum time value, and values,
\* the list of the time values, together with the steps appended by the
\* frame loops: the seed of addSlider is not lost.
C11_SliderKeepsSeed ==
    (Returned /\ show_slider) =>
        LET slider == Layout_.sliders[1]
        IN /\ StepsOfFrames(slider.steps)
           /\ "initialValue" \in DOMAIN slider
           /\ "values" \in DOMAIN slider
           /\ slider.initialValue = MinTimeValue
           /\ Len(slider.values) = Cardinality(ValuesOf(TimeCol))

\* What the returned layout does carry under sliders: the dict addSlider
\* returned, with its steps and without the two keys of the seed.
C11_SeedOverwritten ==
    (Returned /\ show_slider) =>
        /\ Layout_.sliders = <<sliders_dict>>
        /\ StepsOfFrames(sliders_dict.steps)
        /\ DOMAIN sliders_dict = DOMAIN NewSlidersDict

\* A trace the call builds needs a slice of the dataset that has no row: the
\* rows of some time value (truncated to a whole number, as the grid filters
\* them), in categorical mode those of some category among them.
NeededSliceEmpty ==
    IF Grouped THEN SomeSliceEmpty
    ELSE \E y \in ValuesOf(TimeCol) :
            \A i \in 1..Len(Rows) : Rows[i][TimeCol].h # IntYear(y)

\* C12: a call that needs a (time, category, column) combination whose
\* filtered subset is empty ends with a lookup or index error and returns
\* no descriptor.
C12_FailFast ==
    (Ended /\ HasTime /\ NeededSliceEmpty) =>
        (pc = "error" /\ err \in {"IndexError", "KeyError"})

\* C13: in a returned descriptor of a call with a time column the base data
\* equals, trace for trace, the data of the frame named by the string form
\* of the minimum time value, and that frame is the first frame only when
\* the minimum is the first time value seen in the dataset.
C13_BaseIsEarliestFrame ==
    (Returned /\ HasTime) =>
        LET f == Rank(TimeCol, MinTimeValue)
        IN /\ figure.frames[f].name = StrYear(MinTimeValue)
           /\ figure.data = figure.frames[f].data
           /\ f = 1 <=> Rows[1][TimeCol] = MinTimeValue

\* C13 witness: a returned call whose minimum time value is not the first
\* one seen, the base data differing from the data of the first frame.
C13_Witness ==
    /\ Returned /\ HasTime
    /\ Rows[1][TimeCol] # MinTimeValue
    /\ figure.data # figure.frames[1].data
    /\ figure.data = figure.frames[Rank(TimeCol, MinTimeValue)].data

====
